---- MODULE Spec2Model ----
(***************************************************************************)
(* Model of the three HTTP clients of the repository:                      *)
(*   - the fluent builder  ApiClient  (src/ApiClient.ts 82-213),           *)
(*   - the axios based     ApiClient  (src/ApiClient.ts 223-446),          *)
(*   - the hook            useApiClient.request (src/unnamed/part_000),    *)
(* and of ApiResponse with its reaction hooks.                             *)
(*                                                                         *)
(* The transport (fetch / the axios adapter), the refresh endpoint and the *)
(* token store (UserDataController) are the environment: every answer of   *)
(* the server is drawn from a small set.                                   *)
(***************************************************************************)
EXTENDS Integers, Sequences, FiniteSets, TLC

(***************************************************************************)
(* Bounds.                                                                 *)
(***************************************************************************)
\* calls of send() / request() / checkResponse() made on one client
MaxSends == 2
\* calls of the refresh endpoint explored within one send() of the axios client
MaxRefresh == 2
\* reaction hooks (onSuccess / onFail / onTokenExpired) chained on a result
MaxChain == 3
\* interceptors a caller registers
MaxInterceptors == 2
\* concurrent send() calls
MaxCalls == 2

(***************************************************************************)
(* Values.                                                                 *)
(***************************************************************************)
Clients == {"fluent", "axios", "hook"}
Methods == {"get", "post"}

\* statuses a server answers with
Statuses == {200, 202, 401, 404}

\* the reason phrase a server sends with a status (Response.statusText)
ReasonPhrase(s) ==
  CASE s = 200 -> "OK"
    [] s = 201 -> "Created"
    [] s = 202 -> "Accepted"
    [] s = 204 -> "No Content"
    [] s = 401 -> "Unauthorized"
    [] s = 404 -> "Not Found"
    [] s = 500 -> "Internal Server Error"
    [] OTHER   -> ""

\* a JavaScript object with string keys: a function from its keys
EmptyMap == [k \in {} |-> ""]
\* an optional object: undefined, or a reference to an object
Undefined == [def |-> FALSE, map |-> EmptyMap]
Obj(m) == [def |-> TRUE, map |-> m]
\* obj[key], the empty string standing for undefined
Get(m, key) == IF key \in DOMAIN m THEN m[key] ELSE ""
\* delete obj[key]
Delete(m, key) == [k \in (DOMAIN m) \ {key} |-> m[k]]

\* tokens: "" is an absent (undefined or empty) token
NoToken == ""
InitialToken == "t1"
\* the token pair issued by the n-th refresh response
Tok(n) == "t" \o ToString(n + 1)
Bearer(t) == "Bearer " \o t

\* bodies: absent (undefined), text that is not JSON, or a JSON object
NoData == [kind |-> "absent", obj |-> EmptyMap]
TextBody == [kind |-> "text", obj |-> EmptyMap]
JsonBody(m) == [kind |-> "object", obj |-> m]
\* the JSON body of the server: a key 'ref', and a key whose value is null
ServerJson == JsonBody("ref" :> "v" @@ "memo" :> "null")

\* an answer of the transport: a network failure, or a received response
NetFail == [net |-> TRUE, status |-> 0, body |-> NoData]
Received(s, b) == [net |-> FALSE, status |-> s, body |-> b]
\* every status with a JSON body, and responses whose body is not JSON
BusinessAnswers ==
  {NetFail} \cup {Received(s, ServerJson) : s \in Statuses}
            \cup {Received(200, TextBody), Received(404, TextBody)}
\* the answers of the refresh endpoint, n the number of the pair it issues
RefreshBody(n, a, r) ==
  JsonBody([k \in (IF a THEN {"accessToken"} ELSE {})
                    \cup (IF r THEN {"refreshToken"} ELSE {}) |-> Tok(n)])
\* a network failure, a failure status, 200 with one of the two tokens
\* missing, and 200 with both
RefreshAnswers(n) ==
  { NetFail,
    Received(500, RefreshBody(n, TRUE, TRUE)),
    Received(200, RefreshBody(n, FALSE, TRUE)),
    Received(200, RefreshBody(n, TRUE, FALSE)),
    Received(200, RefreshBody(n, TRUE, TRUE)) }

(***************************************************************************)
(* URL templates and parameters.  A URL is a sequence of segments; the     *)
(* placeholder of a key is the segment "{key}".                            *)
(***************************************************************************)
Keys == {"id", "active"}
\* Object.keys order of the caller's parameter object
KeyOrder == <<"id", "active">>
ParamValue(k) == IF k = "id" THEN "42" ELSE "true"
Placeholder(k) == "{" \o k \o "}"
Templates == { <<"/users">>, <<"/users/", "{id}">> }
ParamMaps == { [k \in K |-> ParamValue(k)] : K \in {{}, {"active"}, Keys} }

\* url.includes(seg)
Includes(url, seg) == \E i \in 1..Len(url) : url[i] = seg
\* url.replace(seg, val): the first occurrence only
ReplaceFirst(url, seg, val) ==
  LET i == CHOOSE j \in 1..Len(url) :
             url[j] = seg /\ \A h \in 1..(j - 1) : url[h] # seg
  IN  [url EXCEPT ![i] = val]

\* Object.keys(params).forEach(...) of setUrlParams, from key number i on:
\* a key whose placeholder is in the url is substituted and deleted
RECURSIVE SubstituteFrom(_, _, _)
SubstituteFrom(i, url, params) ==
  IF i > Len(KeyOrder) THEN [url |-> url, params |-> params]
  ELSE LET k == KeyOrder[i] IN
       IF k \in DOMAIN params /\ Includes(url, Placeholder(k))
       THEN SubstituteFrom(i + 1, ReplaceFirst(url, Placeholder(k), params[k]),
                           Delete(params, k))
       ELSE SubstituteFrom(i + 1, url, params)

\* setUrlParams: data is the optional parameter object
setUrlParams(url, data) ==
  IF ~data.def THEN [url |-> url, params |-> data.map]
  ELSE SubstituteFrom(1, url, data.map)

\* new URLSearchParams(params).toString()
RECURSIVE QueryFrom(_, _)
QueryFrom(i, params) ==
  IF i > Len(KeyOrder) THEN ""
  ELSE LET k == KeyOrder[i]
           rest == QueryFrom(i + 1, params)
       IN  IF k \notin DOMAIN params THEN rest
           ELSE IF rest = "" THEN k \o "=" \o params[k]
           ELSE k \o "=" \o params[k] \o "&" \o rest
QueryString(params) == QueryFrom(1, params)

(***************************************************************************)
(* ApiResponse.                                                            *)
(***************************************************************************)
NoResult ==
  [kind |-> "none", status |-> 0, statusText |-> "", data |-> NoData,
   isSuccess |-> FALSE, isTokenExpired |-> FALSE]

\* the constructor with the success flag of any 2xx status
ApiResponseAny2xx(status, statusText, data) ==
  [kind |-> "response", status |-> status, statusText |-> statusText,
   data |-> data,
   isSuccess |-> (status >= 200 /\ status < 300),
   isTokenExpired |-> (status = 401)]

\* new ApiResponse(status, statusText, data)
ApiResponse(status, statusText, data) ==
  [kind |-> "response", status |-> status, statusText |-> statusText,
   data |-> data,
   isSuccess |-> (status = 200 \/ status = 201 \/ status = 204),
   isTokenExpired |-> (status = 401)]

\* a fault thrown to the caller instead of a returned response
Fault ==
  [kind |-> "fault", status |-> 0, statusText |-> "", data |-> NoData,
   isSuccess |-> FALSE, isTokenExpired |-> FALSE]

(***************************************************************************)
(* What the caller and the environment supply besides the request.         *)
(***************************************************************************)
\* the functions a caller registers as interceptors: two that return and one
\* that throws
Interceptors == {"f", "g", "thrower"}
Throws(i) == i = "thrower"
\* the lists of at most MaxInterceptors interceptors
InterceptorLists == UNION {[1..n -> Interceptors] : n \in 0..MaxInterceptors}

\* Logger.log / Logger.error: every call returns, or every call throws
LoggerModes == {"ok", "throws"}

\* the headers a caller passes: none, one that is not Content-Type, and a
\* Content-Type of its own
CallerHeaders ==
  { Undefined, Obj("X-Trace" :> "1"), Obj("Content-Type" :> "text/plain") }

(***************************************************************************)
(* State.                                                                  *)
(***************************************************************************)
VARIABLES
  client,        \* the implementation the caller uses
  pc,            \* "new", "ready", "request" (an axios request in flight), "done"
  sends,         \* calls of send() / request() / checkResponse() made so far
  method,        \* the caller's HTTP method
  template,      \* the caller's URL template
  params,        \* the caller's parameter object (shared by reference)
  dataLinked,    \* this.data / config.data refers to the parameter object
  callerToken,   \* the token the caller passes (setToken, accessToken, config.token)
  isTokenLess,   \* ApiConfig.isTokenLess
  url,           \* this.url
  headers,       \* this.headers of the fluent client
  token,         \* this.token (fluent), this.accessToken (axios)
  nInterceptors, \* response interceptors registered on this.axiosInstance
  stack,         \* the axios request chains of the running send(), innermost last
  userData,      \* UserDataController.instance: the token store
  issued,        \* token pairs the client took from refresh responses so far
  wire,          \* the transport calls and token store writes of the running call
  result,        \* what the call returned
  responses,     \* every ApiResponse constructed by the running call
  chain,         \* the reaction hooks applied to the result, with what they fired
  interceptor,   \* this.interceptor: the list of the fluent client, the one
                 \* function of the axios client
  registered,    \* the interceptors the caller registered, in registration
                 \* order (the hook: config.interceptor)
  logger,        \* whether the calls of Logger return or throw
  callerHeaders, \* the headers the caller passes (config.headers, addHeader)
  calls          \* the concurrent send() calls of the axios client

vars ==
  <<client, pc, sends, method, template, params, dataLinked, callerToken,
    isTokenLess, url, headers, token, nInterceptors, stack, userData, issued,
    wire, result, responses, chain, interceptor, registered, logger,
    callerHeaders, calls>>

\* what the caller passed and the environment: never written after Init
callerVars ==
  <<client, method, template, callerToken, isTokenLess, logger, callerHeaders>>
\* what addInterceptor writes
registrationVars == <<interceptor, registered>>

DefaultHeaders == ("Content-Type" :> "application/json")

\* one transport call as the server sees it, with the answer it gets
Dispatch(kind, m, u, query, body, hdrs, answer) ==
  [kind |-> kind, method |-> m, url |-> u, query |-> query, body |-> body,
   headers |-> hdrs, answer |-> answer, access |-> NoToken, refresh |-> NoToken,
   name |-> ""]
\* the answer of a request that is still in flight
NoAnswer == [net |-> FALSE, status |-> 0, body |-> NoData]
\* one write of the token store
Saved(access, refresh) ==
  [kind |-> "save", method |-> "", url |-> <<>>, query |-> Undefined,
   body |-> Undefined, headers |-> EmptyMap, answer |-> NoAnswer,
   access |-> access, refresh |-> refresh, name |-> ""]
\* the Response object the caller hands to checkResponse
Given(response) ==
  [kind |-> "given", method |-> "", url |-> <<>>, query |-> Undefined,
   body |-> Undefined, headers |-> EmptyMap, answer |-> response,
   access |-> NoToken, refresh |-> NoToken, name |-> ""]
\* one invocation of an interceptor of the caller: interceptor()
Invoked(name) ==
  [kind |-> "interceptor", method |-> "", url |-> <<>>, query |-> Undefined,
   body |-> Undefined, headers |-> EmptyMap, answer |-> NoAnswer,
   access |-> NoToken, refresh |-> NoToken, name |-> name]

\* list.forEach(interceptor => interceptor()): the invocations made, up to and
\* with the first interceptor that throws, and whether one threw
RunInterceptors(list) ==
  LET throwing == {i \in 1..Len(list) : Throws(list[i])}
      last == IF throwing = {} THEN Len(list)
              ELSE CHOOSE i \in throwing : \A j \in throwing : i <= j
  IN  [ran |-> [i \in 1..last |-> Invoked(list[i])], thrown |-> throwing # {}]

\* the entries of a kind in the record of the running call
Count(kind) == Cardinality({i \in 1..Len(wire) : wire[i].kind = kind})

Init ==
  /\ client \in Clients
  /\ pc = "new"
  /\ sends = 0
  /\ method \in Methods
  /\ template \in Templates
  /\ dataLinked \in (IF client = "axios" THEN {TRUE} ELSE BOOLEAN)
  /\ params \in (IF dataLinked THEN ParamMaps ELSE {EmptyMap})
  /\ callerToken \in {NoToken, InitialToken}
  /\ isTokenLess \in (IF client = "axios" THEN BOOLEAN ELSE {FALSE})
  /\ url = <<>>
  /\ headers = DefaultHeaders
  /\ token = NoToken
  /\ nInterceptors = 0
  /\ stack = <<>>
  /\ userData \in
       (IF client = "axios"
        THEN { [accessToken |-> NoToken, refreshToken |-> NoToken],
               [accessToken |-> InitialToken, refreshToken |-> NoToken],
               [accessToken |-> InitialToken, refreshToken |-> InitialToken] }
        ELSE {[accessToken |-> NoToken, refreshToken |-> NoToken]})
  /\ issued = 0
  /\ wire = <<>>
  /\ result = NoResult
  /\ responses = {}
  /\ chain = <<>>
  /\ interceptor = <<>>
  /\ registered = <<>>
  /\ logger \in (IF client = "fluent" THEN {"ok"} ELSE LoggerModes)
  /\ callerHeaders \in (IF client = "axios" THEN {Undefined} ELSE CallerHeaders)
  /\ calls = <<>>

\* the optional parameter object as the client sees it
Data == IF dataLinked THEN Obj(params) ELSE Undefined

(***************************************************************************)
(* useApiClient.request                                                    *)
(***************************************************************************)
\* a setQueryParams that appends a query string on every GET, with or
\* without data
WithQueryAlways(u, data, m) ==
  IF m # "get" THEN u ELSE Append(u, "?" \o QueryString(data.map))

\* setQueryParams of the hook and of the fluent client: the url it leaves
WithQuery(u, data, m) ==
  IF ~data.def \/ m # "get" THEN u
  ELSE Append(u, "?" \o QueryString(data.map))

\* a body handed to fetch whatever the method
FetchBodyAnyMethod(data, m) == IF data.def THEN data ELSE Undefined

\* the body handed to fetch
FetchBody(data, m) == IF m # "get" /\ data.def THEN data ELSE Undefined

\* the catch branch of request: e.status ?? 500, e.statusText ?? '...'
HookCatch == ApiResponse(500, "Internal Server Error!", NoData)

\* fetch, fetchResponse.json() and new ApiResponse of request
HookOutcome(answer) ==
  IF answer.net \/ answer.body.kind # "object" THEN HookCatch
  ELSE ApiResponse(answer.status, ReasonPhrase(answer.status), answer.body)

HookRequest ==
  /\ client = "hook"
  /\ pc \in {"new", "done"}
  /\ sends < MaxSends
  /\ \E answer \in BusinessAnswers :
       LET s == setUrlParams(template, Data)
           data == IF dataLinked THEN Obj(s.params) ELSE Undefined
           \* _config.headers ?? {'Content-Type': 'application/json'}
           base == IF callerHeaders.def THEN callerHeaders.map
                   ELSE DefaultHeaders
           hdrs == IF callerToken # NoToken
                   THEN ("Authorization" :> Bearer(callerToken)) @@ base
                   ELSE base
           run == RunInterceptors(registered)
           call == Dispatch("business", method, WithQuery(s.url, data, method),
                            Undefined, FetchBody(data, method), hdrs, answer)
           \* Logger.log throws in the try branch, then in the catch branch
           r == IF logger = "throws" THEN Fault
                ELSE IF run.thrown THEN HookCatch
                ELSE HookOutcome(answer)
       IN  /\ params' = s.params
           /\ wire' = IF logger = "throws" THEN <<>>
                      ELSE IF run.thrown THEN run.ran
                      ELSE Append(run.ran, call)
           /\ result' = r
           /\ responses' = {r} \ {Fault}
  /\ pc' = "done"
  /\ sends' = sends + 1
  /\ chain' = <<>>
  /\ UNCHANGED <<callerVars, registrationVars, calls, dataLinked, url,
                 headers, token, nInterceptors, stack, userData, issued>>

(***************************************************************************)
(* The fluent ApiClient                                                    *)
(***************************************************************************)
\* setToken: this.token and the Authorization header
setToken(hdrs, t) == ("Authorization" :> Bearer(t)) @@ hdrs

\* addHeader: this.headers = {...this.headers, ...header}
addHeader(hdrs, header) == IF header.def THEN header.map @@ hdrs ELSE hdrs

\* new ApiClient().setMethod(m).setUrl(u).setData(d).addHeader(h).setToken(t)
NewFluentClient ==
  /\ client = "fluent"
  /\ pc = "new"
  /\ url' = template
  /\ token' = callerToken
  /\ headers' = LET added == addHeader(headers, callerHeaders)
                IN  IF callerToken # NoToken THEN setToken(added, callerToken)
                    ELSE added
  /\ pc' = "ready"
  /\ UNCHANGED <<callerVars, registrationVars, calls, sends, params,
                 dataLinked, nInterceptors, stack, userData, issued, wire,
                 result, responses, chain>>

\* the catch branch of send
FluentCatch == ApiResponse(500, "Internal Server Error", NoData)

\* fetch, fetchResponse.json() and new ApiResponse of send
FluentOutcome(answer) ==
  IF answer.net \/ answer.body.kind # "object" THEN FluentCatch
  ELSE ApiResponse(answer.status, ReasonPhrase(answer.status), answer.body)

\* send() of a fluent client in the state (u, data, hdrs, list), the server
\* answering `answer`: the fields it leaves, the interceptors it invokes and
\* its transport call, and its result
FluentSendOn(u, data, m, hdrs, list, answer, kind) ==
  LET s == setUrlParams(u, data)
      d1 == IF data.def THEN Obj(s.params) ELSE Undefined
      u2 == WithQuery(s.url, d1, m)
      \* setQueryParams: this.data = undefined
      d2 == IF d1.def /\ m = "get" THEN Undefined ELSE d1
      run == RunInterceptors(list)
      call == Dispatch(kind, m, u2, Undefined, FetchBody(d2, m), hdrs, answer)
  IN  [url |-> u2, params |-> s.params, linked |-> d2.def,
       calls |-> IF run.thrown THEN run.ran ELSE Append(run.ran, call),
       result |-> IF run.thrown THEN FluentCatch ELSE FluentOutcome(answer)]

FluentSend ==
  /\ client = "fluent"
  /\ pc \in {"ready", "done"}
  /\ sends < MaxSends
  /\ \E answer \in BusinessAnswers :
       LET s == FluentSendOn(url, Data, method, headers, interceptor, answer,
                             "business")
       IN  /\ url' = s.url
           \* the object of the caller is written through this.data only
           /\ params' = IF dataLinked THEN s.params ELSE params
           /\ dataLinked' = s.linked
           /\ wire' = s.calls
           /\ result' = s.result
           /\ responses' = {s.result}
  /\ pc' = "done"
  /\ sends' = sends + 1
  /\ chain' = <<>>
  /\ UNCHANGED <<callerVars, registrationVars, calls, headers, token,
                 nInterceptors, stack, userData, issued>>

\* refreshAccessToken of the fluent client: a new client posts the literal
\* refresh token to the base url
FluentRefresh(answer) ==
  LET s == FluentSendOn(<<"">>, Obj("refreshToken" :> "refresh"), "post",
                        DefaultHeaders, <<>>, answer, "refresh")
      newToken == IF s.result.data.kind = "object"
                  THEN Get(s.result.data.obj, "accessToken") ELSE NoToken
  IN  [call |-> s.calls[1], response |-> s.result, token |-> newToken,
       isSuccess |-> s.result.isSuccess, newToken |-> newToken]

\* checkResponse(response): response is what the server answered to the
\* business request of the caller
FluentCheckResponse ==
  /\ client = "fluent"
  /\ pc \in {"ready", "done"}
  /\ sends < MaxSends
  /\ \E response \in BusinessAnswers \ {NetFail} :
       IF response.status = 401
       THEN \E ra \in RefreshAnswers(issued + 1) :
              LET rf == FluentRefresh(ra) IN
              /\ issued' = issued + 1
              /\ IF ~rf.isSuccess \/ rf.newToken = NoToken
                 THEN LET r == ApiResponse(401, "Unauthorized", NoData) IN
                      /\ token' = rf.token
                      /\ wire' = <<Given(response), rf.call>>
                      /\ result' = r
                      /\ responses' = {rf.response, r}
                      /\ UNCHANGED <<url, params, dataLinked, headers>>
                 ELSE \E answer \in BusinessAnswers :
                        LET hdrs == setToken(headers, rf.newToken)
                            s == FluentSendOn(url, Data, method, hdrs,
                                              interceptor, answer, "business")
                        IN  /\ token' = rf.newToken
                            /\ headers' = hdrs
                            /\ url' = s.url
                            /\ params' = IF dataLinked THEN s.params
                                          ELSE params
                            /\ dataLinked' = s.linked
                            /\ wire' = <<Given(response), rf.call>> \o s.calls
                            /\ result' = s.result
                            /\ responses' = {rf.response, s.result}
       ELSE LET r == IF response.body.kind # "object" THEN Fault
                     ELSE ApiResponse(response.status,
                                      ReasonPhrase(response.status), response.body)
            IN  /\ result' = r
                /\ responses' = {r} \ {Fault}
                /\ wire' = <<Given(response)>>
                /\ UNCHANGED <<url, params, dataLinked, headers, token, issued>>
  /\ pc' = "done"
  /\ sends' = sends + 1
  /\ chain' = <<>>
  /\ UNCHANGED <<callerVars, registrationVars, calls, nInterceptors, stack,
                 userData>>

(***************************************************************************)
(* The axios based ApiClient                                               *)
(***************************************************************************)
\* the constructor: this.url = setUrlParams(config.url, body), and the token
NewAxiosClient ==
  /\ client = "axios"
  /\ pc = "new"
  /\ LET s == setUrlParams(template, Obj(params))
     IN  /\ url' = s.url
         /\ params' = s.params
  /\ token' = IF callerToken # NoToken THEN callerToken ELSE userData.accessToken
  /\ pc' = "ready"
  /\ UNCHANGED <<callerVars, registrationVars, calls, sends, dataLinked,
                 headers, nInterceptors, stack, userData, issued, wire,
                 result, responses, chain>>

\* the request config send() hands to axiosInstance.request; axios sends no
\* header whose value is undefined
AxiosRequest ==
  Dispatch("business", method, url,
           IF method = "get" THEN Obj(params) ELSE Undefined,
           IF method = "get" THEN Undefined ELSE Obj(params),
           IF isTokenLess THEN DefaultHeaders
           ELSE DefaultHeaders @@ ("Authorization" :> Bearer(token)),
           NoAnswer)

\* a request chain of axios: the request, how many response interceptors have
\* handled its outcome, and the outcome (a response, or an error with or
\* without a response)
InFlight(req) ==
  [req |-> req, inflight |-> TRUE, idx |-> 0, ok |-> FALSE,
   hasResponse |-> FALSE, status |-> 0, data |-> NoData]

Top == stack[Len(stack)]
SetTop(f) == [stack EXCEPT ![Len(stack)] = f]

\* send() up to the await of axiosInstance.request: one more response
\* interceptor is registered, the request is logged (outside the try), then
\* the request is dispatched
AxiosSend ==
  /\ client = "axios"
  /\ pc \in {"ready", "done"}
  /\ sends < MaxSends
  /\ nInterceptors' = nInterceptors + 1
  /\ IF logger = "throws"
     THEN /\ stack' = <<>>
          /\ wire' = <<>>
          /\ result' = Fault
          /\ pc' = "done"
     ELSE /\ stack' = <<InFlight(AxiosRequest)>>
          /\ wire' = <<AxiosRequest>>
          /\ result' = NoResult
          /\ pc' = "request"
  /\ responses' = {}
  /\ chain' = <<>>
  /\ sends' = sends + 1
  /\ UNCHANGED <<callerVars, registrationVars, calls, params, dataLinked,
                 url, headers, token, userData, issued>>

\* the adapter settles the innermost request: validateStatus accepts 2xx
AxiosTransport ==
  /\ pc = "request"
  /\ Top.inflight
  /\ \E answer \in BusinessAnswers :
       /\ stack' = SetTop(
            IF answer.net
            THEN [Top EXCEPT !.inflight = FALSE]
            ELSE IF answer.status >= 200 /\ answer.status < 300
            THEN [Top EXCEPT !.inflight = FALSE, !.ok = TRUE, !.hasResponse = TRUE,
                             !.status = answer.status, !.data = answer.body]
            ELSE [Top EXCEPT !.inflight = FALSE, !.hasResponse = TRUE,
                             !.status = answer.status])
       /\ wire' = [wire EXCEPT ![Len(wire)].answer = answer]
  /\ UNCHANGED <<callerVars, registrationVars, calls, pc, sends, params,
                 dataLinked, url, headers, token, nInterceptors, userData,
                 issued, result, responses, chain>>

\* handleObject on the data of a response: a key whose value is null is
\* deleted, the key 'ref' is renamed '_ref'
handleObject(b) ==
  IF b.kind # "object" THEN b
  ELSE LET o == b.obj
           kept == {k \in DOMAIN o : k # "ref" /\ o[k] # "null"}
                     \cup (IF "ref" \in DOMAIN o THEN {"_ref"} ELSE {})
       IN  JsonBody([k \in kept |->
                       IF k = "_ref" /\ "ref" \in DOMAIN o THEN o["ref"] ELSE o[k]])

\* refreshAccessToken of the axios client, the refresh endpoint answering ra
AxiosRefresh(ra) ==
  LET call == Dispatch("refresh", "post", <<"/refresh">>, Undefined,
                       Obj("refreshToken" :> userData.refreshToken), EmptyMap, ra)
      newToken == Get(ra.body.obj, "accessToken")
      newTokenLong == Get(ra.body.obj, "refreshToken")
      thrown == ra.net \/ ~(ra.status >= 200 /\ ra.status < 300)
  IN  IF thrown \/ newToken = NoToken \/ newTokenLong = NoToken
      THEN [call |-> call, isSuccess |-> FALSE, token |-> NoToken,
            saved |-> <<>>,
            userData |-> userData]
      ELSE [call |-> call, isSuccess |-> TRUE, token |-> newToken,
            saved |-> <<Saved(newToken, newTokenLong)>>,
            userData |-> [accessToken |-> newToken, refreshToken |-> newTokenLong]]

\* the next response interceptor handles the outcome of the innermost request
AxiosResponseInterceptor ==
  /\ pc = "request"
  /\ ~Top.inflight
  /\ Top.idx < nInterceptors
  /\ IF Top.ok
     THEN /\ stack' = SetTop([Top EXCEPT !.idx = @ + 1, !.data = handleObject(@)])
          /\ UNCHANGED <<userData, issued, wire>>
     ELSE IF ~Top.hasResponse \/ Top.status # 401
     THEN /\ stack' = SetTop([Top EXCEPT !.idx = @ + 1])
          /\ UNCHANGED <<userData, issued, wire>>
     ELSE \E ra \in RefreshAnswers(issued + 1) :
            LET rf == AxiosRefresh(ra)
                retry == [Top.req EXCEPT
                            !.headers = ("Authorization" :> Bearer(rf.token)) @@ @,
                            !.answer = NoAnswer]
            IN  /\ Count("refresh") < MaxRefresh
                /\ issued' = IF rf.isSuccess THEN issued + 1 ELSE issued
                /\ userData' = rf.userData
                /\ IF rf.isSuccess
                   THEN /\ wire' = wire \o <<rf.call>> \o rf.saved \o <<retry>>
                        /\ stack' = Append(stack, InFlight(retry))
                   ELSE /\ wire' = Append(wire, rf.call)
                        /\ stack' = SetTop([Top EXCEPT !.idx = @ + 1])
  /\ UNCHANGED <<callerVars, registrationVars, calls, pc, sends, params,
                 dataLinked, url, headers, token, nInterceptors, result,
                 responses, chain>>

\* a retried request has passed every interceptor: its outcome settles the
\* promise of the interceptor that retried
AxiosSettle ==
  /\ pc = "request"
  /\ Len(stack) > 1
  /\ ~Top.inflight
  /\ Top.idx = nInterceptors
  /\ LET outer == stack[Len(stack) - 1]
         f == [outer EXCEPT !.idx = @ + 1, !.ok = Top.ok,
                            !.hasResponse = Top.hasResponse,
                            !.status = Top.status, !.data = Top.data]
     IN  stack' = [SubSeq(stack, 1, Len(stack) - 1) EXCEPT ![Len(stack) - 1] = f]
  /\ UNCHANGED <<callerVars, registrationVars, calls, pc, sends, params,
                 dataLinked, url, headers, token, nInterceptors, userData,
                 issued, wire, result, responses, chain>>

\* AxiosError.message
AxiosMessage(f) ==
  IF f.hasResponse
  THEN "Request failed with status code " \o ToString(f.status)
  ELSE "Network Error"

\* what send() makes of an outcome: the try branch, or the isAxiosError branch
\* of the catch
AxiosOutcome(f) ==
  IF f.ok THEN ApiResponse(f.status, ReasonPhrase(f.status), f.data)
  ELSE ApiResponse(IF f.hasResponse THEN f.status ELSE 500, AxiosMessage(f), NoData)

\* the await of send() returns or throws
AxiosReturn ==
  /\ pc = "request"
  /\ Len(stack) = 1
  /\ ~Top.inflight
  /\ Top.idx = nInterceptors
  /\ result' = AxiosOutcome(Top)
  /\ responses' = {AxiosOutcome(Top)}
  /\ stack' = <<>>
  /\ pc' = "done"
  /\ UNCHANGED <<callerVars, registrationVars, calls, sends, params,
                 dataLinked, url, headers, token, nInterceptors, userData,
                 issued, wire, chain>>

(***************************************************************************)
(* addInterceptor of the two classes.                                      *)
(***************************************************************************)
\* the fluent client pushes the function on its list; the axios client
\* assigns it to its one field
AddInterceptor ==
  /\ client \in {"fluent", "axios"}
  /\ pc = "ready"
  /\ Len(registered) < MaxInterceptors
  /\ \E i \in Interceptors :
       /\ interceptor' = IF client = "fluent" THEN Append(interceptor, i)
                         ELSE <<i>>
       /\ registered' = Append(registered, i)
  /\ UNCHANGED <<callerVars, calls, pc, sends, params, dataLinked, url, headers,
                 token, nInterceptors, stack, userData, issued, wire, result,
                 responses, chain>>

(***************************************************************************)
(* The reaction hooks of ApiResponse: each returns this.                   *)
(***************************************************************************)
\* the condition `this.data` of onSuccess
HasData(r) == r.data.kind # "absent"

onFail(r) == IF r.isTokenExpired THEN FALSE ELSE ~r.isSuccess
onSuccess(r) == IF r.isTokenExpired THEN FALSE ELSE r.isSuccess /\ HasData(r)
onTokenExpired(r) == r.isTokenExpired

Hook(name, fired) ==
  /\ client = "response"
  /\ pc = "done"
  /\ result.kind = "response"
  /\ Len(chain) < MaxChain
  /\ chain' = Append(chain, [hook |-> name, fired |-> fired])
  /\ UNCHANGED <<callerVars, registrationVars, calls, pc, sends, params,
                 dataLinked, url, headers, token, nInterceptors, stack,
                 userData, issued, wire, result, responses>>

OnFail == Hook("onFail", onFail(result))
OnSuccess == Hook("onSuccess", onSuccess(result))
OnTokenExpired == Hook("onTokenExpired", onTokenExpired(result))

(***************************************************************************)
(* Specification.                                                          *)
(***************************************************************************)
Next ==
  \/ HookRequest
  \/ NewFluentClient
  \/ FluentSend
  \/ FluentCheckResponse
  \/ NewAxiosClient
  \/ AxiosSend
  \/ AxiosTransport
  \/ AxiosResponseInterceptor
  \/ AxiosSettle
  \/ AxiosReturn

Spec == Init /\ [][Next]_vars

(***************************************************************************)
(* Callers that register interceptors, on one request: a template with a   *)
(* placeholder, both parameters, a token, a working logger, no headers of  *)
(* the caller.                                                             *)
(***************************************************************************)
InitInterceptors ==
  /\ client \in Clients
  /\ pc = "new"
  /\ sends = 0
  /\ method \in Methods
  /\ template = <<"/users/", "{id}">>
  /\ dataLinked = TRUE
  /\ params = [k \in Keys |-> ParamValue(k)]
  /\ callerToken = InitialToken
  /\ isTokenLess = FALSE
  /\ url = <<>>
  /\ headers = DefaultHeaders
  /\ token = NoToken
  /\ nInterceptors = 0
  /\ stack = <<>>
  /\ userData = IF client = "axios"
                THEN [accessToken |-> InitialToken, refreshToken |-> InitialToken]
                ELSE [accessToken |-> NoToken, refreshToken |-> NoToken]
  /\ issued = 0
  /\ wire = <<>>
  /\ result = NoResult
  /\ responses = {}
  /\ chain = <<>>
  /\ interceptor = <<>>
  \* the hook takes the list from the config of the call
  /\ registered \in (IF client = "hook" THEN InterceptorLists ELSE {<<>>})
  /\ logger = "ok"
  /\ callerHeaders = Undefined
  /\ calls = <<>>

NextInterceptors ==
  \/ AddInterceptor
  \/ Next

SpecInterceptors == InitInterceptors /\ [][NextInterceptors]_vars

(***************************************************************************)
(* ApiResponse on its own: a response is constructed from any status and   *)
(* payload a client can pass, then reaction hooks are chained on it.       *)
(***************************************************************************)
InitResponse ==
  /\ client = "response"
  /\ pc = "new"
  /\ sends = 0
  /\ method = "get"
  /\ template = <<>>
  /\ dataLinked = FALSE
  /\ params = EmptyMap
  /\ callerToken = NoToken
  /\ isTokenLess = FALSE
  /\ url = <<>>
  /\ headers = DefaultHeaders
  /\ token = NoToken
  /\ nInterceptors = 0
  /\ stack = <<>>
  /\ userData = [accessToken |-> NoToken, refreshToken |-> NoToken]
  /\ issued = 0
  /\ wire = <<>>
  /\ result = NoResult
  /\ responses = {}
  /\ chain = <<>>
  /\ interceptor = <<>>
  /\ registered = <<>>
  /\ logger = "ok"
  /\ callerHeaders = Undefined
  /\ calls = <<>>

\* the statuses the clients construct a response with
ResponseStatuses == Statuses \cup {201, 204, 500}

NewApiResponse ==
  /\ client = "response"
  /\ pc = "new"
  /\ \E s \in ResponseStatuses, d \in {NoData, TextBody, ServerJson} :
       /\ result' = ApiResponse(s, ReasonPhrase(s), d)
       /\ responses' = {result'}
  /\ pc' = "done"
  /\ UNCHANGED <<callerVars, registrationVars, calls, sends, params,
                 dataLinked, url, headers, token, nInterceptors, stack,
                 userData, issued, wire, chain>>

NextResponse ==
  \/ NewApiResponse
  \/ OnFail
  \/ OnSuccess
  \/ OnTokenExpired

SpecResponse == InitResponse /\ [][NextResponse]_vars

(***************************************************************************)
(* Concurrent send() calls of axios clients on one token store.  A call    *)
(* runs until its next await; the calls interleave at the awaits.          *)
(***************************************************************************)
\* a call: where it waits, the Authorization header of its last dispatch, the
\* refresh token it sent, the token its refresh returned, its refresh calls
Call(at, auth, sent, tok, n) ==
  [pc |-> at, auth |-> auth, sent |-> sent, token |-> tok, refreshes |-> n]

InitConcurrent ==
  /\ client = "axios"
  /\ pc = "new"
  /\ sends = 0
  /\ method = "get"
  /\ template = <<"/users">>
  /\ dataLinked = TRUE
  /\ params = EmptyMap
  /\ callerToken = NoToken
  /\ isTokenLess = FALSE
  /\ url = <<>>
  /\ headers = DefaultHeaders
  /\ token = NoToken
  /\ nInterceptors = 0
  /\ stack = <<>>
  /\ userData = [accessToken |-> InitialToken, refreshToken |-> InitialToken]
  /\ issued = 0
  /\ wire = <<>>
  /\ result = NoResult
  /\ responses = {}
  /\ chain = <<>>
  /\ interceptor = <<>>
  /\ registered = <<>>
  /\ logger = "ok"
  /\ callerHeaders = Undefined
  /\ calls = [c \in 1..MaxCalls |-> Call("new", "", NoToken, NoToken, 0)]

\* what a concurrent call leaves alone
concurrentFrame ==
  <<callerVars, registrationVars, pc, sends, params, dataLinked, url, headers,
    token, nInterceptors, stack, wire, result, responses, chain>>

\* new ApiClient(config, body).send() up to the await of the request: the
\* constructor reads the access token of the store
ConcurrentSend(c) ==
  /\ calls[c].pc = "new"
  /\ calls' = [calls EXCEPT ![c].pc = "request",
                            ![c].auth = Bearer(userData.accessToken)]
  /\ UNCHANGED <<concurrentFrame, userData, issued>>

\* the server answers the request or its retry: on 401 the interceptor calls
\* refreshAccessToken, which reads the refresh token of the store and awaits
\* the refresh request
ConcurrentAnswer(c) ==
  /\ calls[c].pc = "request"
  /\ \E status \in {200, 401} :
       IF status = 401
       THEN /\ calls[c].refreshes < MaxRefresh
            /\ calls' = [calls EXCEPT ![c].pc = "refresh",
                                      ![c].sent = userData.refreshToken,
                                      ![c].refreshes = @ + 1]
       ELSE calls' = [calls EXCEPT ![c].pc = "done"]
  /\ UNCHANGED <<concurrentFrame, userData, issued>>

\* the refresh endpoint answers: refreshAccessToken runs to its return and
\* saves the pair in one call of saveUserData
ConcurrentRefreshAnswer(c) ==
  /\ calls[c].pc = "refresh"
  /\ \E ra \in RefreshAnswers(issued + 1) :
       LET rf == AxiosRefresh(ra) IN
       /\ userData' = rf.userData
       /\ issued' = IF rf.isSuccess THEN issued + 1 ELSE issued
       /\ calls' = [calls EXCEPT ![c].pc = IF rf.isSuccess THEN "resume"
                                           ELSE "done",
                                 ![c].token = rf.token]
  /\ UNCHANGED concurrentFrame

\* a retry that takes its token from the store
RetryTokenFromStore(call) == userData.accessToken

\* the token of the retry: newToken, the token refreshAccessToken returned
RetryToken(call) == call.token

\* the interceptor resumes after `await this.refreshAccessToken()` and sends
\* the request again
ConcurrentRetry(c) ==
  /\ calls[c].pc = "resume"
  /\ calls' = [calls EXCEPT ![c].pc = "request",
                            ![c].auth = Bearer(RetryToken(calls[c]))]
  /\ UNCHANGED <<concurrentFrame, userData, issued>>

NextConcurrent ==
  \E c \in 1..MaxCalls :
    \/ ConcurrentSend(c)
    \/ ConcurrentAnswer(c)
    \/ ConcurrentRefreshAnswer(c)
    \/ ConcurrentRetry(c)

SpecConcurrent == InitConcurrent /\ [][NextConcurrent]_vars

(***************************************************************************)
(* Properties.                                                             *)
(***************************************************************************)
\* the calls the running call made through the transport
TransportCalls == Count("business") + Count("refresh")

\* a refresh answer that succeeds with a new access and a new refresh token
RefreshSucceeded(a) ==
  /\ ~a.net
  /\ a.status >= 200 /\ a.status < 300
  /\ Get(a.body.obj, "accessToken") # NoToken
  /\ Get(a.body.obj, "refreshToken") # NoToken

\* the response of a refresh failure
Unauthorized == ApiResponse(401, "Unauthorized", NoData)

\* C1: within one call that attaches a token the refresh endpoint is called at
\* most once; a retry that answers 401 is returned without a second refresh.
C1_AtMostOneRefresh ==
  (~isTokenLess /\ token # NoToken) =>
    /\ Count("refresh") <= 1
    /\ (pc = "done" /\ Count("refresh") = 1 /\ wire[Len(wire)].kind = "business"
          /\ wire[Len(wire)].answer.status = 401) => result.status = 401

\* C2: one call makes at most three transport calls (the original request, one
\* refresh, one retry), so it returns whatever the server answers.
C2_BoundedTransportCalls == TransportCalls <= 3

\* C3: after a 401 and a refresh that succeeds with both tokens, the axios
\* client has saved the pair, then dispatched the request exactly once more
\* with the new access token; the business endpoint was called twice, the
\* refresh endpoint once, the result is the outcome of the retry and the store
\* holds the new pair.
C3_RefreshThenOneRetry ==
  ( /\ client = "axios"
    /\ pc = "done"
    /\ Len(wire) >= 2
    /\ wire[1].answer.status = 401
    /\ wire[2].kind = "refresh"
    /\ RefreshSucceeded(wire[2].answer) ) =>
      LET access == Get(wire[2].answer.body.obj, "accessToken")
          refresh == Get(wire[2].answer.body.obj, "refreshToken")
      IN  /\ Len(wire) = 4
          /\ wire[3] = Saved(access, refresh)
          /\ wire[4].kind = "business"
          /\ Get(wire[4].headers, "Authorization") = Bearer(access)
          /\ Count("business") = 2
          /\ Count("refresh") = 1
          /\ result.status = wire[4].answer.status
          /\ userData = [accessToken |-> access, refreshToken |-> refresh]

\* C4: after a 401 and a refresh that fails (network failure, failure status,
\* or a body without one of the two tokens) the call returns 401 "Unauthorized"
\* without data and the business request is not retried.
C4_FailedRefreshGivesUnauthorized ==
  ( /\ pc = "done"
    /\ Len(wire) >= 2
    /\ wire[1].answer.status = 401
    /\ wire[2].kind = "refresh"
    /\ ~RefreshSucceeded(wire[2].answer) ) =>
      /\ result = Unauthorized
      /\ Len(wire) = 2

\* C5: after construction the stored tokens and the token of the client change
\* only in a step whose refresh call succeeded with both new tokens.
C5_TokensWrittenOnlyOnRefresh ==
  [][ (pc # "new" /\ (token' # token \/ userData' # userData)) =>
        \E i \in 1..Len(wire') :
          wire'[i].kind = "refresh" /\ RefreshSucceeded(wire'[i].answer) ]_vars

\* C6: a tokenless request never calls the refresh endpoint, is dispatched
\* once, never carries an Authorization header and writes no token.
C6_TokenlessNeverRefreshes ==
  isTokenLess =>
    /\ Count("refresh") = 0
    /\ Count("save") = 0
    /\ Count("business") <= 1
    /\ \A i \in 1..Len(wire) : "Authorization" \notin DOMAIN wire[i].headers

\* C7: while the token store holds no refresh token, a 401 sends nothing to the
\* refresh endpoint, is not retried, and is returned as 401 "Unauthorized"
\* without data.
C7_NoRefreshWithoutRefreshToken ==
  (client = "axios" /\ userData.refreshToken = NoToken) =>
    /\ Count("refresh") = 0
    /\ Count("business") <= 1
    /\ (pc = "done" /\ Len(wire) >= 1 /\ wire[1].answer.status = 401) =>
         result = Unauthorized

\* C8: a transport failure of the original dispatch ends the call with the
\* response 500 "Internal Server Error" without data, after one transport call.
C8_TransportFailureGives500 ==
  ( /\ pc = "done"
    /\ Len(wire) >= 1
    /\ wire[1].kind = "business"
    /\ wire[1].answer.net ) =>
      /\ result = ApiResponse(500, "Internal Server Error", NoData)
      /\ Len(wire) = 1

\* C9: a received response with a JSON body whose status is neither 401 nor a
\* success (2xx) status is returned with the status, the statusText and the
\* body of the server.
C9_ServerErrorPassedThrough ==
  ( /\ pc = "done"
    /\ Len(wire) = 1
    /\ wire[1].kind = "business"
    /\ ~wire[1].answer.net
    /\ wire[1].answer.status # 401
    /\ ~(wire[1].answer.status >= 200 /\ wire[1].answer.status < 300)
    /\ wire[1].answer.body.kind = "object" ) =>
      /\ result.kind = "response"
      /\ result.status = wire[1].answer.status
      /\ result.statusText = ReasonPhrase(wire[1].answer.status)
      /\ result.data = wire[1].answer.body

\* the flags of a response are the functions of its status the claim names
FlagsDerived(r) ==
  /\ r.isSuccess = (r.status \in {200, 201, 204})
  /\ r.isTokenExpired = (r.status = 401)
  /\ ~(r.isSuccess /\ r.isTokenExpired)

\* C10: for every ApiResponse constructed, isSuccess is true exactly for the
\* statuses 200, 201 and 204, isTokenExpired exactly for 401, never both, and
\* no chain of onSuccess / onFail / onTokenExpired changes the response.
C10_FlagsDerivedAndFrozen ==
  /\ [](\A r \in responses : FlagsDerived(r))
  /\ [](pc = "done" => result \in responses)
  /\ [][pc = "done" => result' = result /\ responses' = responses]_vars

\* a success response (status 204) on which a chain of at least two hooks was
\* applied, the success callback among those that fired
C10_Witness ==
  /\ client = "response"
  /\ result.status = 204
  /\ result.isSuccess
  /\ ~result.isTokenExpired
  /\ Len(chain) >= 2
  /\ \E i \in 1..Len(chain) : chain[i].hook = "onSuccess" /\ chain[i].fired

\* the three reaction hooks
HookNames == {"onSuccess", "onFail", "onTokenExpired"}

\* the chain registers one callback with each of the three hooks
OneOfEachHook ==
  /\ Len(chain) = 3
  /\ \A n \in HookNames : \E i \in 1..Len(chain) : chain[i].hook = n

\* the hook the derived flags of a response select
HookOfFlags(r) ==
  IF r.isTokenExpired THEN "onTokenExpired"
  ELSE IF r.isSuccess THEN "onSuccess"
  ELSE "onFail"

\* C11: on a chain that registers one callback with each of onSuccess, onFail
\* and onTokenExpired, the callback of the hook selected by the derived flags
\* fires and the other two do not, whatever the payload: exactly one fires.
C11_ExactlyOneHookFires ==
  (client = "response" /\ pc = "done" /\ OneOfEachHook) =>
    \A i \in 1..Len(chain) :
      chain[i].fired = (chain[i].hook = HookOfFlags(result))

\* the names of the interceptors the running call invoked among the first n
\* entries of its record, in the order of invocation
RECURSIVE InvokedBefore(_)
InvokedBefore(n) ==
  IF n = 0 THEN <<>>
  ELSE IF wire[n].kind = "interceptor"
  THEN Append(InvokedBefore(n - 1), wire[n].name)
  ELSE InvokedBefore(n - 1)

\* the first dispatch of the business request in the record of the running call
FirstDispatch ==
  CHOOSE i \in 1..Len(wire) :
    wire[i].kind = "business" /\ \A j \in 1..(i - 1) : wire[j].kind # "business"

\* C12: a call that dispatched the request has invoked, before the dispatch,
\* every interceptor the caller registered, each once and in registration
\* order, and has invoked none after the dispatch.
C12_InterceptorsRunBeforeDispatch ==
  (pc = "done" /\ Count("business") >= 1) =>
    /\ InvokedBefore(FirstDispatch) = registered
    /\ \A j \in FirstDispatch..Len(wire) : wire[j].kind # "interceptor"

\* C13: when an interceptor throws, the call ends with a fault and not with a
\* response, and nothing follows the interceptor that threw: no later
\* interceptor is invoked and the transport is not called.
C13_InterceptorFaultAborts ==
  \A i \in 1..Len(wire) :
    (pc = "done" /\ wire[i].kind = "interceptor" /\ Throws(wire[i].name)) =>
      /\ result = Fault
      /\ i = Len(wire)

\* C14: no construction and no call changes the parameter object of the
\* caller: after every step it has the keys and values it had before.
C14_CallerParamsUnchanged == [][params' = params]_vars

\* every parameter object a caller can be left with
AllParamMaps == {[k \in K |-> ParamValue(k)] : K \in SUBSET Keys}
\* the query string of a parameter object as it is appended to a URL
QuerySegment(m) == "?" \o QueryString(m)
\* the positions of the URL of a dispatch that hold a query string
QueryPositions(d) ==
  {i \in 1..Len(d.url) : \E m \in AllParamMaps : d.url[i] = QuerySegment(m)}
\* a dispatch carries a query string: appended to its URL, or handed to axios
\* as `params`
HasQuery(d) == d.query.def \/ QueryPositions(d) # {}
\* the parameters in the query string of a dispatch
QueryParams(d) ==
  IF d.query.def THEN d.query.map
  ELSE CHOOSE m \in AllParamMaps : d.url[Len(d.url)] = QuerySegment(m)
\* the keys path substitution consumed for a dispatch
ConsumedKeys(d) ==
  {k \in Keys : Includes(template, Placeholder(k))
                  /\ ~Includes(d.url, Placeholder(k))}

\* C15: on every dispatch of the business request, the retry included: a GET
\* has no body and at most one query string, which is the query string of the
\* parameters left after path substitution; another method has no query
\* string and the parameters left as its body; a consumed parameter is in
\* neither.
C15_QueryOrBody ==
  \A i \in 1..Len(wire) :
    wire[i].kind = "business" =>
      LET d == wire[i] IN
      /\ IF d.method = "get"
         THEN /\ ~d.body.def
              /\ QueryPositions(d) \subseteq {Len(d.url)}
              /\ params # EmptyMap => HasQuery(d)
              /\ HasQuery(d) => QueryParams(d) = params
         ELSE /\ ~HasQuery(d)
              /\ params # EmptyMap => d.body.def
              /\ d.body.def => d.body.map = params
      /\ \A k \in ConsumedKeys(d) :
           /\ HasQuery(d) => k \notin DOMAIN QueryParams(d)
           /\ d.body.def => k \notin DOMAIN d.body.map

\* the retry of a GET after a refresh: 'id' was substituted into the path,
\* 'active' is in the query string of the retry
C15_Witness ==
  /\ pc = "done"
  /\ method = "get"
  /\ template = <<"/users/", "{id}">>
  /\ params = ("active" :> "true")
  /\ Count("refresh") = 1
  /\ Count("business") = 2
  /\ wire[Len(wire)].kind = "business"
  /\ HasQuery(wire[Len(wire)])
  /\ QueryParams(wire[Len(wire)]) = ("active" :> "true")

\* the client holds an access token for the request
TokenPresent ==
  IF client = "hook" THEN callerToken # NoToken ELSE token # NoToken

\* the Content-Type the caller asks for
ContentTypeAsked ==
  IF callerHeaders.def /\ "Content-Type" \in DOMAIN callerHeaders.map
  THEN callerHeaders.map["Content-Type"]
  ELSE "application/json"

\* C16: a dispatch of the business request carries an Authorization header
\* exactly when the request is not tokenless and a token is present, and never
\* 'Bearer ' followed by an empty token; it carries the Content-Type of the
\* caller if the caller supplied one, and application/json otherwise.
C16_AuthorizationAndContentType ==
  \A i \in 1..Len(wire) :
    wire[i].kind = "business" =>
      LET h == wire[i].headers IN
      /\ ("Authorization" \in DOMAIN h) <=> (~isTokenLess /\ TokenPresent)
      /\ Get(h, "Authorization") # Bearer(NoToken)
      /\ Get(h, "Content-Type") = ContentTypeAsked

\* C17: a call made while the logger throws ends as it does while the logger
\* works: it dispatches the request and returns a response, and no fault of
\* the logger reaches the caller.
C17_LoggerFailureHarmless ==
  (pc = "done" /\ sends >= 1 /\ logger = "throws") =>
    /\ result.kind = "response"
    /\ Count("business") >= 1

\* the headers of a dispatch other than Authorization
WithoutAuthorization(h) == [k \in (DOMAIN h) \ {"Authorization"} |-> h[k]]

\* two dispatches are the same request but for the Authorization header
SameRequest(a, b) ==
  /\ a.method = b.method
  /\ a.url = b.url
  /\ a.query = b.query
  /\ a.body = b.body
  /\ WithoutAuthorization(a.headers) = WithoutAuthorization(b.headers)

\* the last dispatch of the business request in a record
LastBusiness(w) ==
  w[CHOOSE i \in 1..Len(w) :
      w[i].kind = "business" /\ \A j \in (i + 1)..Len(w) : w[j].kind # "business"]

\* entry i of a record is the dispatch of a retry: a refresh call precedes it
IsRetry(w, i) ==
  w[i].kind = "business" /\ \E j \in 1..(i - 1) : w[j].kind = "refresh"

\* C18: the retry after a refresh has the method, the URL, the query string,
\* the body and the headers other than Authorization of the request as it was
\* dispatched before: the first dispatch of the same send() (axios), or the
\* last dispatch the client made before checkResponse (fluent).
C18_RetryRepeatsRequest ==
  [][ \A i \in 1..Len(wire') :
        IsRetry(wire', i) =>
          IF wire'[1].kind = "business"
          THEN SameRequest(wire'[1], wire'[i])
          ELSE (\E j \in 1..Len(wire) : wire[j].kind = "business") =>
                 SameRequest(LastBusiness(wire), wire'[i]) ]_vars

\* the fluent client, in its second call, has retried a GET from
\* checkResponse: the path is substituted and the query string appended once
C18_Witness ==
  /\ client = "fluent"
  /\ pc = "done"
  /\ sends = 2
  /\ method = "get"
  /\ Len(wire) = 3
  /\ wire[1].kind = "given"
  /\ wire[2].kind = "refresh"
  /\ IsRetry(wire, 3)
  /\ wire[3].url = <<"/users/", "42", "?active=true">>
  /\ Get(wire[3].headers, "Authorization") = Bearer(Tok(issued))

\* a record holds a dispatch of the business request
Dispatched(w) == \E i \in 1..Len(w) : w[i].kind = "business"

\* the first dispatch of the business request in a record
FirstBusiness(w) ==
  w[CHOOSE i \in 1..Len(w) :
      w[i].kind = "business" /\ \A j \in 1..(i - 1) : w[j].kind # "business"]

\* the 401 answers the running call got to the business request (the fluent
\* checkResponse: was handed)
Answered401 ==
  Cardinality({i \in 1..Len(wire) :
                 /\ wire[i].kind \in {"business", "given"}
                 /\ wire[i].answer.status = 401})

\* C19: a call that follows a finished call on the same config object or the
\* same client dispatches the URL, the query string and the body the call
\* before it dispatched; and no call makes more refresh attempts than it got
\* 401 answers, which is what the first call of a client does.
C19_SecondCallSameDispatch ==
  /\ [][ (pc = "done" /\ sends' = sends + 1 /\ Dispatched(wire)
            /\ Dispatched(wire')) =>
           /\ FirstBusiness(wire').url = FirstBusiness(wire).url
           /\ FirstBusiness(wire').query = FirstBusiness(wire).query
           /\ FirstBusiness(wire').body = FirstBusiness(wire).body ]_vars
  /\ [](Count("refresh") <= Answered401)

\* the pairs the store can hold whole: the initial pair, or the pair of one
\* of the refresh responses issued so far
WholePairs ==
  {[accessToken |-> InitialToken, refreshToken |-> InitialToken]}
    \cup {[accessToken |-> Tok(n), refreshToken |-> Tok(n)] : n \in 1..issued}

\* C20: under every interleaving of concurrent send() calls that refresh, the
\* token store holds the initial pair or the pair of one single refresh
\* response, and the retry a call has in flight carries the access token that
\* the refresh of that call returned.
C20_NoMixedPair ==
  /\ userData \in WholePairs
  /\ \A c \in 1..Len(calls) :
       (calls[c].pc = "request" /\ calls[c].refreshes > 0) =>
         calls[c].auth = Bearer(calls[c].token)

\* a call has its retry in flight with the token of its own refresh while
\* the store holds the later pair of the refresh of another call
C20_Witness ==
  \E c, d \in 1..Len(calls) :
    /\ c # d
    /\ calls[c].pc = "request"
    /\ calls[c].refreshes > 0
    /\ calls[d].refreshes > 0
    /\ calls[d].token = userData.accessToken
    /\ calls[c].token # userData.accessToken
    /\ calls[c].auth = Bearer(calls[c].token)

====
